---------------------------- MODULE Spec2Model ----------------------------
(***************************************************************************)
(* Model of the Remembar MCP server (poke-mcp-server/src/server.py): three *)
(* tools, add_memory, search_memory and get_server_info, each of which     *)
(* issues one blocking HTTP request to the ChromaDB service and turns the  *)
(* outcome of that request into a string (or, for get_server_info, a       *)
(* record).                                                                *)
(*                                                                         *)
(* Python strings that reach the caller are modelled as sequences of       *)
(* one-character strings, so that f-string formatting is concatenation,    *)
(* str(int) is decimal conversion and "contains" is a substring search.    *)
(* The two non-ASCII markers of the source (the check mark and the fire    *)
(* emoji) are the single characters "<check>" and "<fire>"; neither is     *)
(* whitespace.  Identifiers that are only compared or passed through       *)
(* (priorities, tags, the tenant id, URLs) are plain strings.              *)
(***************************************************************************)
EXTENDS Integers, Sequences, FiniteSets, TLC

VARIABLES config, pc, op, args, sent, outcome, result

vars == <<config, pc, op, args, sent, outcome, result>>

---------------------------------------------------------------------------
(* Bounds of the model.                                                    *)

\* longest text given to add_memory
MaxTextLen == 2
\* longest query given to search_memory
MaxQueryLen == 1
\* largest n_results requested of search_memory
MaxRequested == 12
\* most matches the remote service returns in one response
MaxMatches == 6

---------------------------------------------------------------------------
(* Strings as character sequences.                                         *)

Digits == <<"0", "1", "2", "3", "4", "5", "6", "7", "8", "9">>

RECURSIVE NatToStr(_)
NatToStr(n) ==
    IF n < 10 THEN <<Digits[n + 1]>>
    ELSE NatToStr(n \div 10) \o <<Digits[(n % 10) + 1]>>

\* str(n) / f"{n}" of a Python int
IntToStr(n) == IF n < 0 THEN <<"-">> \o NatToStr(-n) ELSE NatToStr(n)

\* sub in s
Contains(s, sub) ==
    \E i \in 0..(Len(s) - Len(sub)) : SubSeq(s, i + 1, i + Len(sub)) = sub

\* s.startswith(prefix)
StartsWith(s, prefix) ==
    /\ Len(prefix) <= Len(s)
    /\ SubSeq(s, 1, Len(prefix)) = prefix

Whitespace == {" ", "\n"}

RECURSIVE LStrip(_)
LStrip(s) ==
    IF s # <<>> /\ Head(s) \in Whitespace THEN LStrip(Tail(s)) ELSE s

RECURSIVE RStrip(_)
RStrip(s) ==
    IF s # <<>> /\ s[Len(s)] \in Whitespace
    THEN RStrip(SubSeq(s, 1, Len(s) - 1))
    ELSE s

\* str.strip()
Strip(s) == RStrip(LStrip(s))

\* every character sequence over alphabet of length at most n
StringsUpTo(alphabet, n) == UNION {[1..k -> alphabet] : k \in 0..n}

---------------------------------------------------------------------------
(* String literals of server.py.                                           *)

SAVED_PREFIX ==
    <<"<check>", " ", "M", "e", "m", "o", "r", "y", " ", "s", "a", "v", "e",
      "d", " ", "s", "u", "c", "c", "e", "s", "s", "f", "u", "l", "l", "y",
      "!", " ", "(", "I", "D", ":", " ">>

SAVED_MIDDLE ==
    <<")", "\n", "\n", "I", "'", "l", "l", " ", "r", "e", "m", "e", "m",
      "b", "e", "r", ":", " ">>

FAILED_SAVE_MSG ==
    <<"F", "a", "i", "l", "e", "d", " ", "t", "o", " ", "s", "a", "v", "e",
      " ", "m", "e", "m", "o", "r", "y", ".", " ", "P", "l", "e", "a", "s",
      "e", " ", "t", "r", "y", " ", "a", "g", "a", "i", "n", ".">>

STATUS_ERROR_PREFIX ==
    <<"E", "r", "r", "o", "r", " ", "c", "o", "n", "n", "e", "c", "t", "i",
      "n", "g", " ", "t", "o", " ", "m", "e", "m", "o", "r", "y", " ", "d",
      "a", "t", "a", "b", "a", "s", "e", ".", " ", "S", "t", "a", "t", "u",
      "s", ":", " ">>

NETWORK_ERROR_MSG ==
    <<"N", "e", "t", "w", "o", "r", "k", " ", "e", "r", "r", "o", "r", ":",
      " ", "U", "n", "a", "b", "l", "e", " ", "t", "o", " ", "r", "e", "a",
      "c", "h", " ", "m", "e", "m", "o", "r", "y", " ", "d", "a", "t", "a",
      "b", "a", "s", "e", ".", " ", "P", "l", "e", "a", "s", "e", " ", "c",
      "h", "e", "c", "k", " ", "y", "o", "u", "r", " ", "c", "o", "n", "n",
      "e", "c", "t", "i", "o", "n", ".">>

ERROR_SAVING_PREFIX ==
    <<"E", "r", "r", "o", "r", " ", "s", "a", "v", "i", "n", "g", " ", "m",
      "e", "m", "o", "r", "y", ":", " ">>

NOT_FOUND_PREFIX ==
    <<"I", " ", "c", "o", "u", "l", "d", "n", "'", "t", " ", "f", "i", "n",
      "d", " ", "a", "n", "y", " ", "m", "e", "m", "o", "r", "i", "e", "s",
      " ", "m", "a", "t", "c", "h", "i", "n", "g", " ", "'">>

NOT_FOUND_SUFFIX ==
    <<"'", ".", " ", "T", "r", "y", " ", "r", "e", "p", "h", "r", "a", "s",
      "i", "n", "g", " ", "o", "r", " ", "a", "d", "d", " ", "t", "h", "i",
      "s", " ", "a", "s", " ", "a", " ", "n", "e", "w", " ", "m", "e", "m",
      "o", "r", "y", "!">>

FOUND_PREFIX ==
    <<"F", "o", "u", "n", "d", " ">>

FOUND_SUFFIX ==
    <<" ", "r", "e", "l", "e", "v", "a", "n", "t", " ", "m", "e", "m", "o",
      "r", "i", "e", "s", ":", "\n", "\n">>

VISUAL_LABEL ==
    <<" ", " ", " ", "(", "f", "r", "o", "m", " ", "v", "i", "s", "u", "a",
      "l", " ", "m", "e", "m", "o", "r", "y", ")", "\n">>

NOTES_LABEL ==
    <<" ", " ", " ", "(", "f", "r", "o", "m", " ", "y", "o", "u", "r", " ",
      "n", "o", "t", "e", "s", ")", "\n">>

FAILED_SEARCH_MSG ==
    <<"F", "a", "i", "l", "e", "d", " ", "t", "o", " ", "s", "e", "a", "r",
      "c", "h", " ", "m", "e", "m", "o", "r", "i", "e", "s", ".", " ", "P",
      "l", "e", "a", "s", "e", " ", "t", "r", "y", " ", "a", "g", "a", "i",
      "n", ".">>

ERROR_SEARCHING_PREFIX ==
    <<"E", "r", "r", "o", "r", " ", "s", "e", "a", "r", "c", "h", "i", "n",
      "g", " ", "m", "e", "m", "o", "r", "i", "e", "s", ":", " ">>

UNKNOWN ==
    <<"u", "n", "k", "n", "o", "w", "n">>

NONE_STR ==
    <<"N", "o", "n", "e">>

TRUE_STR ==
    <<"T", "r", "u", "e">>

FALSE_STR ==
    <<"F", "a", "l", "s", "e">>

NO_GET_LIST ==
    <<"'", "l", "i", "s", "t", "'", " ", "o", "b", "j", "e", "c", "t", " ",
      "h", "a", "s", " ", "n", "o", " ", "a", "t", "t", "r", "i", "b", "u",
      "t", "e", " ", "'", "g", "e", "t", "'">>

NO_GET_NONE ==
    <<"'", "N", "o", "n", "e", "T", "y", "p", "e", "'", " ", "o", "b", "j",
      "e", "c", "t", " ", "h", "a", "s", " ", "n", "o", " ", "a", "t", "t",
      "r", "i", "b", "u", "t", "e", " ", "'", "g", "e", "t", "'">>

NO_GET_STR ==
    <<"'", "s", "t", "r", "'", " ", "o", "b", "j", "e", "c", "t", " ", "h",
      "a", "s", " ", "n", "o", " ", "a", "t", "t", "r", "i", "b", "u", "t",
      "e", " ", "'", "g", "e", "t", "'">>

NO_LEN_INT ==
    <<"o", "b", "j", "e", "c", "t", " ", "o", "f", " ", "t", "y", "p", "e",
      " ", "'", "i", "n", "t", "'", " ", "h", "a", "s", " ", "n", "o", " ",
      "l", "e", "n", "(", ")">>

NOT_ITERABLE_NONE ==
    <<"a", "r", "g", "u", "m", "e", "n", "t", " ", "o", "f", " ", "t", "y",
      "p", "e", " ", "'", "N", "o", "n", "e", "T", "y", "p", "e", "'", " ",
      "i", "s", " ", "n", "o", "t", " ", "i", "t", "e", "r", "a", "b", "l",
      "e">>

BAD_JSON ==
    <<"E", "x", "p", "e", "c", "t", "i", "n", "g", " ", "v", "a", "l", "u",
      "e", ":", " ", "l", "i", "n", "e", " ", "1", " ", "c", "o", "l", "u",
      "m", "n", " ", "1", " ", "(", "c", "h", "a", "r", " ", "0", ")">>

---------------------------------------------------------------------------
(* Program constants.                                                      *)

\* the status code of a successful response
HTTP_OK == 200
\* timeout, in seconds, of the add_note and search_semantic requests
POST_TIMEOUT == 10
\* timeout, in seconds, of the healthz request
HEALTH_TIMEOUT == 5
\* cap on the n_results sent to search_semantic
MAX_N_RESULTS == 10
\* number of leading results search_memory formats
SHOWN_RESULTS == 5
\* distance threshold 0.5 of the confidence marker, in tenths
DISTANCE_THRESHOLD10 == 5

VALID_PRIORITIES == {"low", "med", "high"}
DEFAULT_PRIORITY == "med"
SEARCH_COLLECTIONS == <<"entities_stream_v1", "user_notes_v1">>

\* CHROMADB_URL and TENANT_ID, read once from the environment at start-up
Configs ==
    { [CHROMADB_URL |-> "https://memary-chromadb.ngrok-free.app",
       TENANT_ID |-> "default_user"],
      [CHROMADB_URL |-> "http://localhost:8000",
       TENANT_ID |-> "patient_1"] }

---------------------------------------------------------------------------
(* Exceptions: a class and the text str(e) gives.  Parent is the base      *)
(* class of each class the outbound call or the handlers' own statements   *)
(* can raise.                                                              *)

ExceptionClasses ==
    {"ConnectionError", "Timeout", "RequestsJSONDecodeError",
     "RequestException", "OSError", "JSONDecodeError", "ValueError",
     "AttributeError", "TypeError", "RuntimeError", "Exception"}

Parent(cls) ==
    CASE cls = "ConnectionError"         -> "RequestException"
      [] cls = "Timeout"                 -> "RequestException"
      [] cls = "RequestsJSONDecodeError" -> "RequestException"
      [] cls = "RequestException"        -> "OSError"
      [] cls = "OSError"                 -> "Exception"
      [] cls = "JSONDecodeError"         -> "ValueError"
      [] cls = "ValueError"              -> "Exception"
      [] cls = "AttributeError"          -> "Exception"
      [] cls = "TypeError"               -> "Exception"
      [] cls = "RuntimeError"            -> "Exception"
      [] cls = "Exception"               -> "BaseException"
      [] OTHER                           -> "object"

\* issubclass(cls, base): the test an except clause makes
RECURSIVE IsSubclass(_, _)
IsSubclass(cls, base) ==
    IF cls = base THEN TRUE
    ELSE IF cls = "object" THEN FALSE
    ELSE IsSubclass(Parent(cls), base)

Exc(cls, text) == [cls |-> cls, text |-> text]
NoExc == Exc("object", <<>>)

\* the way a block of code ends: by returning a value or raising
Return(type, v) == [tag |-> "return", type |-> type, val |-> v, exc |-> NoExc]
Raise(e) == [tag |-> "raise", type |-> "none", val |-> <<>>, exc |-> e]
NoResult == [tag |-> "none", type |-> "none", val |-> <<>>, exc |-> NoExc]

---------------------------------------------------------------------------
(* JSON values of a response body.                                         *)

JAbsent == [t |-> "absent", n |-> 0, s |-> <<>>]
JNull == [t |-> "null", n |-> 0, s |-> <<>>]
JBool(b) == [t |-> "bool", n |-> IF b THEN 1 ELSE 0, s |-> <<>>]
JInt(n) == [t |-> "int", n |-> n, s |-> <<>>]
JStr(s) == [t |-> "str", n |-> 0, s |-> s]

\* "data.get(key) is not None" in place of bool(data.get(key))
Truthy_IsNotNone(v) == v.t \notin {"absent", "null"}

\* bool(data.get(key)) for a scalar value; a missing key gives None
Truthy(v) ==
    CASE v.t = "absent" -> FALSE
      [] v.t = "null"   -> FALSE
      [] v.t = "bool"   -> v.n = 1
      [] v.t = "int"    -> v.n # 0
      [] v.t = "str"    -> v.s # <<>>
      [] OTHER          -> TRUE

\* str(v), as an f-string formats a value
PyStr(v) ==
    CASE v.t = "null" -> NONE_STR
      [] v.t = "bool" -> IF v.n = 1 THEN TRUE_STR ELSE FALSE_STR
      [] v.t = "int"  -> IntToStr(v.n)
      [] OTHER        -> v.s

\* one match of a search response
Metadata(t, keys) == [t |-> t, keys |-> keys]

Match(t, hasDoc, doc, hasDist, dist10, meta) ==
    [t |-> t, has_document |-> hasDoc, document |-> doc,
     has_distance |-> hasDist, distance10 |-> dist10, metadata |-> meta]

\* the i-th match the remote service can return
MatchPool(i) ==
    CASE i = 1 -> Match("dict", TRUE, <<"d", "1">>, TRUE, 2,
                        Metadata("dict", {"frame_ts"}))
      [] i = 2 -> Match("dict", TRUE, <<"d", "2">>, TRUE, 7,
                        Metadata("dict", {"note_id"}))
      [] i = 3 -> Match("dict", FALSE, <<>>, TRUE, 5,
                        Metadata("absent", {}))
      [] i = 4 -> Match("dict", TRUE, <<"d", "4">>, FALSE, 0,
                        Metadata("dict", {"frame_ts", "note_id"}))
      [] i = 5 -> Match("dict", TRUE, <<"d", "5", " ">>, TRUE, 9,
                        Metadata("dict", {}))
      [] i = 6 -> Match("dict", TRUE, <<"d", "6">>, TRUE, 1,
                        Metadata("null", {}))
      [] i = 7 -> Match("str", FALSE, <<>>, FALSE, 0,
                        Metadata("absent", {}))
      [] OTHER -> Match("dict", TRUE, <<"d">> \o IntToStr(i), TRUE, i % 10,
                        Metadata("dict", {"note_id"}))

MatchLists ==
    {[k \in 1..(b - a + 1) |-> MatchPool(a + k - 1)] :
        a \in 1..MaxMatches, b \in 1..MaxMatches}

RAbsent == [t |-> "absent", n |-> 0, items |-> <<>>]
RNull == [t |-> "null", n |-> 0, items |-> <<>>]
RInt(n) == [t |-> "int", n |-> n, items |-> <<>>]
RList(items) == [t |-> "list", n |-> 0, items |-> items]

\* data.get("results", []): the empty list when the key is missing
ResultsGet(data) ==
    IF data.results.t = "absent" THEN RList(<<>>) ELSE data.results

\* "results is not None" in place of bool(results)
ResultsTruthy_IsNotNone(r) == r.t # "null"

\* bool(results)
ResultsTruthy(r) ==
    CASE r.t = "int"  -> r.n # 0
      [] r.t = "list" -> r.items # <<>>
      [] OTHER        -> FALSE

Body(kind, ok, noteId, results) ==
    [kind |-> kind, ok |-> ok, note_id |-> noteId, results |-> results]

NonDictBodies ==
    {Body(k, JAbsent, JAbsent, RAbsent) : k \in {"malformed", "list", "null"}}

OkValues ==
    {JAbsent, JNull, JBool(FALSE), JBool(TRUE), JInt(0), JInt(1), JStr(<<>>)}

NoteIdValues == {JAbsent, JNull, JStr(<<"n", "7">>), JInt(42)}

ResultsValues ==
    {RAbsent, RNull, RInt(0), RInt(3)} \cup {RList(l) : l \in MatchLists}

AddNoteBodies ==
    NonDictBodies \cup
    {Body("dict", ok, id, RAbsent) : ok \in OkValues, id \in NoteIdValues}

SearchBodies ==
    NonDictBodies \cup
    {Body("dict", ok, JAbsent, r) : ok \in OkValues, r \in ResultsValues}

HealthBodies == {Body(k, JAbsent, JAbsent, RAbsent) : k \in {"malformed", "dict"}}

StatusCodes == {HTTP_OK, 201, 404, 500}

ExcTexts == {<<>>, <<"b", "o", "o", "m">>, NETWORK_ERROR_MSG}

\* what requests.post / requests.get can end in: a response or an exception
RaisedOutcomes ==
    {[kind |-> "raise", status_code |-> 0,
      body |-> Body("null", JAbsent, JAbsent, RAbsent), exc |-> Exc(c, t)] :
        c \in {"ConnectionError", "Timeout", "RequestException",
               "RuntimeError", "ValueError"},
        t \in ExcTexts}

Responses(bodies) ==
    {[kind |-> "response", status_code |-> s, body |-> b, exc |-> NoExc] :
        s \in StatusCodes, b \in bodies}

NoOutcome ==
    [kind |-> "none", status_code |-> 0,
     body |-> Body("null", JAbsent, JAbsent, RAbsent), exc |-> NoExc]

\* the class response.json() raises on a body that is not JSON: the
\* requests release decides between its own JSONDecodeError (a
\* RequestException) and the standard library's (a ValueError)
JsonErrorClasses == {"RequestsJSONDecodeError", "JSONDecodeError"}

---------------------------------------------------------------------------
(* Inputs of the tools.                                                    *)

Alphabet == {"a", "b"}
Texts == StringsUpTo(Alphabet, MaxTextLen)
Queries == StringsUpTo(Alphabet, MaxQueryLen)
Priorities == {"low", "med", "high", "HIGH", "Med", "", "urgent"}

\* Optional[list[str]]: None or a list
NoTags == [none |-> TRUE, items |-> <<>>]
TagList(items) == [none |-> FALSE, items |-> items]
TagsValues == {NoTags, TagList(<<>>), TagList(<<"keys", "location">>)}

RequestedCounts == (0 - 1)..MaxRequested

NoArgs ==
    [text |-> <<>>, priority |-> "", tags |-> NoTags, query |-> <<>>,
     n_results |-> 0]

---------------------------------------------------------------------------
(* Steps shared by the handlers.                                           *)

\* response.json()
ResponseJson(body, decodeErr) ==
    IF body.kind = "malformed" THEN Raise(Exc(decodeErr, BAD_JSON))
    ELSE Return("json", body)

\* the AttributeError of data.get on a body that is no JSON object
NoGetError(body) ==
    Exc("AttributeError",
        IF body.kind = "list" THEN NO_GET_LIST ELSE NO_GET_NONE)

---------------------------------------------------------------------------
(* add_memory                                                              *)

\* a validation that lower-cases the priority before the membership test
EffectivePriority_CaseFolded(priority) ==
    CASE priority = "HIGH" -> "high"
      [] priority = "Med"  -> "med"
      [] priority \notin VALID_PRIORITIES -> DEFAULT_PRIORITY
      [] OTHER -> priority

\* the priority validation
EffectivePriority(priority) ==
    IF priority \notin VALID_PRIORITIES THEN DEFAULT_PRIORITY ELSE priority

AddMemoryPayload(cfg, text, priority, tags) ==
    [tenant_id |-> cfg.TENANT_ID,
     text |-> text,
     modality |-> "typed",
     priority |-> EffectivePriority(priority),
     tags |-> IF ~tags.none /\ tags.items # <<>> THEN tags.items ELSE <<>>,
     linked_entity |-> "None"]

\* add_memory posting its request a second time
AddMemoryRequests_Twice(cfg, text, priority, tags) ==
    LET req == [method |-> "POST",
                url |-> <<cfg.CHROMADB_URL, "/add_note">>,
                json |-> AddMemoryPayload(cfg, text, priority, tags),
                timeout |-> POST_TIMEOUT]
    IN  <<req, req>>

\* the requests add_memory issues
AddMemoryRequests(cfg, text, priority, tags) ==
    << [method |-> "POST",
        url |-> <<cfg.CHROMADB_URL, "/add_note">>,
        json |-> AddMemoryPayload(cfg, text, priority, tags),
        timeout |-> POST_TIMEOUT] >>

\* a confirmation that shows a one-character summary of the text
SavedMessage_Summary(noteId, text) ==
    SAVED_PREFIX \o noteId \o SAVED_MIDDLE
        \o SubSeq(text, 1, IF Len(text) < 1 THEN Len(text) ELSE 1)

\* the confirmation of a saved memory
SavedMessage(noteId, text) ==
    SAVED_PREFIX \o noteId \o SAVED_MIDDLE \o text

\* a status message that leaves the code out
StatusErrorMessage_NoCode(status) == STATUS_ERROR_PREFIX

\* the message for a response whose status is not 200
StatusErrorMessage(status) == STATUS_ERROR_PREFIX \o IntToStr(status)

\* the body of the try block, from the outcome of requests.post on
AddMemoryTry(text, out, decodeErr) ==
    IF out.kind = "raise" THEN Raise(out.exc)
    ELSE IF out.status_code = HTTP_OK
    THEN LET data == ResponseJson(out.body, decodeErr)
         IN  IF data.tag = "raise" THEN data
             ELSE IF data.val.kind # "dict" THEN Raise(NoGetError(data.val))
             ELSE IF Truthy(data.val.ok)
             THEN LET note_id == IF data.val.note_id.t = "absent"
                                 THEN UNKNOWN
                                 ELSE PyStr(data.val.note_id)
                  IN  Return("str", SavedMessage(note_id, text))
             ELSE Return("str", FAILED_SAVE_MSG)
    ELSE Return("str", StatusErrorMessage(out.status_code))

\* the except clauses of add_memory with the generic clause first
AddMemoryExcept_GenericFirst(e) ==
    IF IsSubclass(e.cls, "Exception")
    THEN Return("str", ERROR_SAVING_PREFIX \o e.text)
    ELSE IF IsSubclass(e.cls, "RequestException")
    THEN Return("str", NETWORK_ERROR_MSG)
    ELSE Raise(e)

\* the except clauses of add_memory, in order
AddMemoryExcept(e) ==
    IF IsSubclass(e.cls, "RequestException")
    THEN Return("str", NETWORK_ERROR_MSG)
    ELSE IF IsSubclass(e.cls, "Exception")
    THEN Return("str", ERROR_SAVING_PREFIX \o e.text)
    ELSE Raise(e)

AddMemory(text, out, decodeErr) ==
    LET c == AddMemoryTry(text, out, decodeErr)
    IN  IF c.tag = "raise" THEN AddMemoryExcept(c.exc) ELSE c

---------------------------------------------------------------------------
(* search_memory                                                           *)

\* max(n_results, 10) in place of min
CappedCount_Max(n_results) ==
    IF n_results > MAX_N_RESULTS THEN n_results ELSE MAX_N_RESULTS

\* min(n_results, 10)
CappedCount(n_results) ==
    IF n_results < MAX_N_RESULTS THEN n_results ELSE MAX_N_RESULTS

SearchPayload(cfg, query, n_results) ==
    [tenant_id |-> cfg.TENANT_ID,
     query_text |-> query,
     collections |-> SEARCH_COLLECTIONS,
     n_results |-> CappedCount(n_results)]

\* the requests search_memory issues
SearchRequests(cfg, query, n_results) ==
    << [method |-> "POST",
        url |-> <<cfg.CHROMADB_URL, "/search_semantic">>,
        json |-> SearchPayload(cfg, query, n_results),
        timeout |-> POST_TIMEOUT] >>

NotFoundMessage(query) == NOT_FOUND_PREFIX \o query \o NOT_FOUND_SUFFIX

FoundHeader(count) == FOUND_PREFIX \o IntToStr(count) \o FOUND_SUFFIX

\* the formatting loop running over every result, not the first five
Shown_All(items) == items

\* results[:5]
Shown(items) ==
    SubSeq(items, 1, IF Len(items) < SHOWN_RESULTS THEN Len(items)
                     ELSE SHOWN_RESULTS)

\* one pass of the formatting loop: the text one match appends
FormatMatch(r) ==
    IF r.t # "dict" THEN Raise(Exc("AttributeError", NO_GET_STR))
    ELSE LET doc == IF r.has_document THEN r.document ELSE <<>>
             distance10 == IF r.has_distance THEN r.distance10 ELSE 0
             confidence == IF distance10 < DISTANCE_THRESHOLD10
                           THEN <<"<fire>">> ELSE <<"<check>">>
             line == confidence \o <<" ">> \o doc \o <<"\n">>
         IN  IF r.metadata.t = "null"
             THEN Raise(Exc("TypeError", NOT_ITERABLE_NONE))
             ELSE IF "frame_ts" \in r.metadata.keys
             THEN Return("str", line \o VISUAL_LABEL \o <<"\n">>)
             ELSE IF "note_id" \in r.metadata.keys
             THEN Return("str", line \o NOTES_LABEL \o <<"\n">>)
             ELSE Return("str", line \o <<"\n">>)

\* the formatting loop over items, response_text being acc so far
RECURSIVE FormatMatches(_, _)
FormatMatches(items, acc) ==
    IF items = <<>> THEN Return("str", acc)
    ELSE LET one == FormatMatch(Head(items))
         IN  IF one.tag = "raise" THEN one
             ELSE FormatMatches(Tail(items), acc \o one.val)

\* the listing of a non-empty results value
FormatResults(results) ==
    IF results.t # "list" THEN Raise(Exc("TypeError", NO_LEN_INT))
    ELSE LET c == FormatMatches(Shown(results.items),
                                FoundHeader(Len(results.items)))
         IN  IF c.tag = "raise" THEN c ELSE Return("str", Strip(c.val))

\* the body of the try block, from the outcome of requests.post on
SearchTry(query, out, decodeErr) ==
    IF out.kind = "raise" THEN Raise(out.exc)
    ELSE IF out.status_code = HTTP_OK
    THEN LET data == ResponseJson(out.body, decodeErr)
         IN  IF data.tag = "raise" THEN data
             ELSE IF data.val.kind # "dict" THEN Raise(NoGetError(data.val))
             ELSE IF Truthy(data.val.ok)
             THEN LET results == ResultsGet(data.val)
                  IN  IF ~ResultsTruthy(results)
                      THEN Return("str", NotFoundMessage(query))
                      ELSE FormatResults(results)
             ELSE Return("str", FAILED_SEARCH_MSG)
    ELSE Return("str", StatusErrorMessage(out.status_code))

\* search_memory without its generic except clause
SearchExcept_TransportOnly(e) ==
    IF IsSubclass(e.cls, "RequestException")
    THEN Return("str", NETWORK_ERROR_MSG)
    ELSE Raise(e)

\* the except clauses of search_memory, in order
SearchExcept(e) ==
    IF IsSubclass(e.cls, "RequestException")
    THEN Return("str", NETWORK_ERROR_MSG)
    ELSE IF IsSubclass(e.cls, "Exception")
    THEN Return("str", ERROR_SEARCHING_PREFIX \o e.text)
    ELSE Raise(e)

SearchMemory(query, out, decodeErr) ==
    LET c == SearchTry(query, out, decodeErr)
    IN  IF c.tag = "raise" THEN SearchExcept(c.exc) ELSE c

---------------------------------------------------------------------------
(* get_server_info                                                         *)

\* the requests get_server_info issues
HealthRequests(cfg) ==
    << [method |-> "GET",
        url |-> <<cfg.CHROMADB_URL, "/healthz">>,
        json |-> "None",
        timeout |-> HEALTH_TIMEOUT] >>

\* a health check that takes every 2xx status for connected
ChromadbStatus_Any2xx(out) ==
    IF out.kind = "raise"
    THEN IF IsSubclass(out.exc.cls, "Exception")
         THEN Return("str", "disconnected")
         ELSE Raise(out.exc)
    ELSE Return("str", IF out.status_code \div 100 = 2 THEN "connected"
                       ELSE "disconnected")

\* the try block and its except clause
ChromadbStatus(out) ==
    IF out.kind = "raise"
    THEN IF IsSubclass(out.exc.cls, "Exception")
         THEN Return("str", "disconnected")
         ELSE Raise(out.exc)
    ELSE Return("str", IF out.status_code = HTTP_OK THEN "connected"
                       ELSE "disconnected")

ServerInfo(cfg, status) ==
    [server_name |-> "RemembarMCP",
     version |-> "1.0.0",
     description |-> "Memory assistant for Alzheimer's patients",
     chromadb_url |-> cfg.CHROMADB_URL,
     chromadb_status |-> status,
     tenant_id |-> cfg.TENANT_ID,
     features |-> <<"add_memory", "search_memory">>]

GetServerInfo(cfg, out) ==
    LET s == ChromadbStatus(out)
    IN  IF s.tag = "raise" THEN s
        ELSE Return("dict", ServerInfo(cfg, s.val))

---------------------------------------------------------------------------
(* The state machine.  One tool runs at a time: a call builds its request  *)
(* and blocks in requests.post / requests.get (pc = "waiting"); when the   *)
(* request ends, in a response or an exception, the tool finishes and      *)
(* returns (pc = "returned"), and the host hands the value to its caller   *)
(* and is ready for the next call (pc = "idle").  sent is the list of      *)
(* requests the running invocation has issued.                             *)

Init ==
    /\ config \in Configs
    /\ pc = "idle"
    /\ op = "none"
    /\ args = NoArgs
    /\ sent = <<>>
    /\ outcome = NoOutcome
    /\ result = NoResult

\* the host dispatches a tool call when no tool is running
CanCall == pc = "idle"

AddMemoryCall(text, priority, tags) ==
    /\ CanCall
    /\ op' = "add_memory"
    /\ args' = [NoArgs EXCEPT !.text = text, !.priority = priority,
                              !.tags = tags]
    /\ sent' = AddMemoryRequests(config, text, priority, tags)
    /\ pc' = "waiting"
    /\ outcome' = NoOutcome
    /\ result' = NoResult
    /\ UNCHANGED config

AddMemoryReturn(out, decodeErr) ==
    /\ pc = "waiting"
    /\ op = "add_memory"
    /\ outcome' = out
    /\ result' = AddMemory(args.text, out, decodeErr)
    /\ pc' = "returned"
    /\ UNCHANGED <<config, op, args, sent>>

SearchMemoryCall(query, n_results) ==
    /\ CanCall
    /\ op' = "search_memory"
    /\ args' = [NoArgs EXCEPT !.query = query, !.n_results = n_results]
    /\ sent' = SearchRequests(config, query, n_results)
    /\ pc' = "waiting"
    /\ outcome' = NoOutcome
    /\ result' = NoResult
    /\ UNCHANGED config

SearchMemoryReturn(out, decodeErr) ==
    /\ pc = "waiting"
    /\ op = "search_memory"
    /\ outcome' = out
    /\ result' = SearchMemory(args.query, out, decodeErr)
    /\ pc' = "returned"
    /\ UNCHANGED <<config, op, args, sent>>

GetServerInfoCall ==
    /\ CanCall
    /\ op' = "get_server_info"
    /\ args' = NoArgs
    /\ sent' = HealthRequests(config)
    /\ pc' = "waiting"
    /\ outcome' = NoOutcome
    /\ result' = NoResult
    /\ UNCHANGED config

GetServerInfoReturn(out) ==
    /\ pc = "waiting"
    /\ op = "get_server_info"
    /\ outcome' = out
    /\ result' = GetServerInfo(config, out)
    /\ pc' = "returned"
    /\ UNCHANGED <<config, op, args, sent>>

\* the host hands the returned value to the caller; nothing of the
\* invocation is kept (stateless_http)
HostDeliver ==
    /\ pc = "returned"
    /\ pc' = "idle"
    /\ op' = "none"
    /\ args' = NoArgs
    /\ sent' = <<>>
    /\ outcome' = NoOutcome
    /\ result' = NoResult
    /\ UNCHANGED config

\* the classes response.json() can raise on this body
DecodeErrors(out) ==
    IF out.kind = "response" /\ out.status_code = HTTP_OK
       /\ out.body.kind = "malformed"
    THEN JsonErrorClasses
    ELSE {"JSONDecodeError"}

Next ==
    \/ \E text \in Texts, priority \in Priorities, tags \in TagsValues :
          AddMemoryCall(text, priority, tags)
    \/ \E out \in RaisedOutcomes \cup Responses(AddNoteBodies) :
          \E decodeErr \in DecodeErrors(out) : AddMemoryReturn(out, decodeErr)
    \/ \E query \in Queries, n_results \in RequestedCounts :
          SearchMemoryCall(query, n_results)
    \/ \E out \in RaisedOutcomes \cup Responses(SearchBodies) :
          \E decodeErr \in DecodeErrors(out) :
              SearchMemoryReturn(out, decodeErr)
    \/ GetServerInfoCall
    \/ \E out \in RaisedOutcomes \cup Responses(HealthBodies) :
          GetServerInfoReturn(out)
    \/ HostDeliver

Spec == Init /\ [][Next]_vars

---------------------------------------------------------------------------
(* Properties.                                                             *)

StringTools == {"add_memory", "search_memory"}

\* the running tool has returned (or raised) and the host has not yet
\* taken the value
Returned(tool) == pc = "returned" /\ op = tool

\* the outbound call of the invocation ended in a response with this status
Responded == outcome.kind = "response"

\* the scalar JSON values Python takes for false, and a missing key
FalsyValues == {JAbsent, JNull, JBool(FALSE), JInt(0), JStr(<<>>)}

\* the response is a 200 whose body is a JSON object
Ok200 == Responded /\ outcome.status_code = 200 /\ outcome.body.kind = "dict"

\* the exception classes of a transport failure
TransportClasses == {"ConnectionError", "Timeout", "RequestException"}

GenericPrefix(tool) ==
    IF tool = "add_memory" THEN ERROR_SAVING_PREFIX
    ELSE ERROR_SEARCHING_PREFIX

FailureMessage(tool) ==
    IF tool = "add_memory" THEN FAILED_SAVE_MSG ELSE FAILED_SEARCH_MSG

\* a confirmation, a listing or the no-results message
SuccessShaped(s) ==
    \/ StartsWith(s, SAVED_PREFIX)
    \/ StartsWith(s, FOUND_PREFIX)
    \/ StartsWith(s, NOT_FOUND_PREFIX)

\* C1: whatever the outbound call ends in (any status, any body, a body
\* that is not JSON, results that are no list, a match that is no object
\* or has null metadata, a transport exception, any other exception),
\* add_memory and search_memory return a string and get_server_info
\* returns a record; no invocation ends in an exception.
C1_NeverRaises ==
    pc = "returned" =>
        /\ result.tag = "return"
        /\ result.type = IF op = "get_server_info" THEN "dict" ELSE "str"

\* C1 witness: a search whose 200 response lists a match with null
\* metadata among the first five has returned a string.
C1_Witness ==
    /\ Returned("search_memory")
    /\ Ok200
    /\ outcome.body.ok = JBool(TRUE)
    /\ outcome.body.results.t = "list"
    /\ \E i \in 1..Len(outcome.body.results.items) :
          i <= 5 /\ outcome.body.results.items[i].metadata.t = "null"
    /\ result.tag = "return"
    /\ StartsWith(result.val, ERROR_SEARCHING_PREFIX)

\* C2: when the outbound call of add_memory or search_memory raises a
\* transport exception the tool returns the fixed network-error string,
\* and that string differs from the generic-exception string of the same
\* exception text; any other exception gives the generic string, prefix
\* followed by the text, which is never the network-error string.
C2_NetworkErrorDistinct ==
    (pc = "returned" /\ op \in StringTools /\ outcome.kind = "raise") =>
        LET generic == GenericPrefix(op) \o outcome.exc.text
        IN  IF outcome.exc.cls \in TransportClasses
            THEN result.val = NETWORK_ERROR_MSG /\ result.val # generic
            ELSE result.val = generic /\ result.val # NETWORK_ERROR_MSG

\* C2 witness: add_memory has returned the network-error string for a
\* connection error whose text is itself the network-error string.
C2_Witness ==
    /\ Returned("add_memory")
    /\ outcome.kind = "raise"
    /\ outcome.exc.cls = "ConnectionError"
    /\ outcome.exc.text = NETWORK_ERROR_MSG
    /\ result.val = NETWORK_ERROR_MSG

\* the decimal digits of the status codes the remote service answers with
StatusDigits(status) ==
    CASE status = 201 -> <<"2", "0", "1">>
      [] status = 404 -> <<"4", "0", "4">>
      [] status = 500 -> <<"5", "0", "0">>
      [] OTHER        -> <<"2", "0", "0">>

\* C3: when the response to add_memory or search_memory has a status other
\* than 200, the tool returns the connection-error string ending in the
\* decimal status code, whatever the body and the inputs.
C3_StatusCodeReported ==
    (pc = "returned" /\ op \in StringTools /\ Responded
        /\ outcome.status_code # 200) =>
        /\ result.tag = "return"
        /\ Contains(result.val, StatusDigits(outcome.status_code))
        /\ result.val = STATUS_ERROR_PREFIX \o StatusDigits(outcome.status_code)

\* C3 witness: add_memory has answered a 404 whose body reports success
\* with a string that contains 404.
C3_Witness ==
    /\ Returned("add_memory")
    /\ Responded
    /\ outcome.status_code = 404
    /\ outcome.body.kind = "dict"
    /\ outcome.body.ok = JBool(TRUE)
    /\ Contains(result.val, <<"4", "0", "4">>)

\* C4: a 200 response whose JSON object has no "ok" or a falsy one gives
\* the failure message of the tool; and a confirmation, a listing or the
\* no-results message is returned only for a 200 response whose "ok" is
\* truthy.
C4_FalsyOkFails ==
    (pc = "returned" /\ op \in StringTools) =>
        /\ (Ok200 /\ outcome.body.ok \in FalsyValues)
              => result.val = FailureMessage(op)
        /\ (result.tag = "return" /\ SuccessShaped(result.val))
              => (Ok200 /\ outcome.body.ok \notin FalsyValues)

\* C4 witness: a search answered 200 with "ok": 0 and a non-empty match
\* list has returned the failure message.
C4_Witness ==
    /\ Returned("search_memory")
    /\ Ok200
    /\ outcome.body.ok = JInt(0)
    /\ outcome.body.results.t = "list"
    /\ outcome.body.results.items # <<>>
    /\ result.val = FAILED_SEARCH_MSG

\* the text of the note identifiers the remote service answers with
NoteIdText(v) ==
    CASE v = JAbsent -> UNKNOWN
      [] v = JNull   -> <<"N", "o", "n", "e">>
      [] v = JInt(42) -> <<"4", "2">>
      [] OTHER       -> v.s

\* C5: for every text, priority and tags, a 200 response with a truthy
\* "ok" makes add_memory return the confirmation that contains the text
\* as given and the note identifier of the response, "unknown" when the
\* response has no note_id.
C5_ConfirmationHasText ==
    (Returned("add_memory") /\ Ok200 /\ outcome.body.ok \notin FalsyValues) =>
        LET id == NoteIdText(outcome.body.note_id)
        IN  /\ result.val = SAVED_PREFIX \o id \o SAVED_MIDDLE \o args.text
            /\ Contains(result.val, args.text)
            /\ Contains(result.val, id)
            /\ outcome.body.note_id = JAbsent => Contains(result.val, UNKNOWN)

\* C5 witness: a two-character text sent with an invalid priority and
\* tags, answered without a note_id, is confirmed with "unknown".
C5_Witness ==
    /\ Returned("add_memory")
    /\ Ok200
    /\ outcome.body.ok = JInt(1)
    /\ outcome.body.note_id = JAbsent
    /\ Len(args.text) = 2
    /\ args.priority = "urgent"
    /\ ~args.tags.none
    /\ Contains(result.val, args.text)

\* C6: the priority of the add_note payload is the given priority when it
\* is exactly "low", "med" or "high" and "med" otherwise, and the request
\* is issued in either case.
C6_PriorityFallback ==
    (op = "add_memory" /\ pc \in {"waiting", "returned"}) =>
        /\ Len(sent) >= 1
        /\ sent[1].url[2] = "/add_note"
        /\ sent[1].json.priority =
              IF args.priority \in {"low", "med", "high"}
              THEN args.priority ELSE "med"
        /\ (pc = "returned" /\ Ok200 /\ outcome.body.ok = JBool(TRUE))
              => StartsWith(result.val, SAVED_PREFIX)

\* C6 witness: add_memory called with "HIGH" has posted "med" and been
\* confirmed.
C6_Witness ==
    /\ Returned("add_memory")
    /\ args.priority = "HIGH"
    /\ sent[1].json.priority = "med"
    /\ StartsWith(result.val, SAVED_PREFIX)

\* C7: the n_results of the search_semantic payload is 10 when more than
\* 10 are requested and the requested value otherwise, so never above 10.
C7_CountCapped ==
    (op = "search_memory" /\ pc \in {"waiting", "returned"}) =>
        /\ Len(sent) >= 1
        /\ sent[1].json.n_results <= 10
        /\ sent[1].json.n_results =
              IF args.n_results > 10 THEN 10 ELSE args.n_results

\* C7 witness: a search that asked for more than 10 results has sent 10.
C7_Witness ==
    /\ op = "search_memory"
    /\ pc = "waiting"
    /\ args.n_results > 10
    /\ sent[1].json.n_results = 10

\* C8: a search answered 200 with a truthy "ok" and an empty or missing
\* match list returns the no-memories message built around the query as
\* given, and no "Found N relevant memories" listing.
C8_EmptyMatchList ==
    (Returned("search_memory") /\ Ok200 /\ outcome.body.ok \notin FalsyValues
        /\ outcome.body.results \in {RAbsent, RList(<<>>)}) =>
        /\ result.val = NOT_FOUND_PREFIX \o args.query \o NOT_FOUND_SUFFIX
        /\ Contains(result.val, args.query)
        /\ ~StartsWith(result.val, FOUND_PREFIX)

\* C8 witness: a search for a non-empty query, answered without a
\* "results" key, has returned the no-memories message.
C8_Witness ==
    /\ Returned("search_memory")
    /\ Ok200
    /\ outcome.body.ok = JBool(TRUE)
    /\ outcome.body.results = RAbsent
    /\ args.query # <<>>
    /\ StartsWith(result.val, NOT_FOUND_PREFIX)

\* C9: get_server_info reports "connected" exactly when the health check
\* answers 200 and "disconnected" when it raises or answers another
\* status; the other fields of the record are the fixed ones and the
\* configured URL and tenant, whatever the health check did.
C9_HealthStatus ==
    Returned("get_server_info") =>
        /\ result.tag = "return"
        /\ result.val.chromadb_status =
              IF Responded /\ outcome.status_code = 200
              THEN "connected" ELSE "disconnected"
        /\ [result.val EXCEPT !.chromadb_status = "-"] =
              [server_name |-> "RemembarMCP",
               version |-> "1.0.0",
               description |-> "Memory assistant for Alzheimer's patients",
               chromadb_url |-> config.CHROMADB_URL,
               chromadb_status |-> "-",
               tenant_id |-> config.TENANT_ID,
               features |-> <<"add_memory", "search_memory">>]

\* C9 witness: a health check answered 201 is reported disconnected.
C9_Witness ==
    /\ Returned("get_server_info")
    /\ Responded
    /\ outcome.status_code = 201
    /\ result.val.chromadb_status = "disconnected"

\* the endpoint each tool calls
Endpoint(tool) ==
    CASE tool = "add_memory"    -> "/add_note"
      [] tool = "search_memory" -> "/search_semantic"
      [] OTHER                  -> "/healthz"

\* C10: an invocation that is waiting for its request or has returned has
\* issued exactly one request, to the endpoint of its tool: no outcome is
\* followed by a second request and no invocation returns without one.
C10_ExactlyOneRequest ==
    pc \in {"waiting", "returned"} =>
        /\ Len(sent) = 1
        /\ sent[1].url = <<config.CHROMADB_URL, Endpoint(op)>>

\* C10 witness: add_memory has returned from a 500 response with one
\* request issued.
C10_Witness ==
    /\ Returned("add_memory")
    /\ Responded
    /\ outcome.status_code = 500
    /\ Len(sent) = 1

ConfidenceMarkers == {"<fire>", "<check>"}

\* the positions of s where a line that shows a match begins: a
\* confidence marker at the start of a line
EntryStarts(s) ==
    {p \in 1..Len(s) :
        /\ s[p] \in ConfidenceMarkers
        /\ (p = 1 \/ s[p - 1] = "\n")}

\* the line of s that begins at position p, without its line end
LineAt(s, p) ==
    LET ends == {q \in p..Len(s) : s[q] = "\n"}
        stop == IF ends = {} THEN Len(s) + 1
                ELSE CHOOSE q \in ends : \A q2 \in ends : q <= q2
    IN  SubSeq(s, p, stop - 1)

\* the lines of a listing that show a match, in the order of the listing
EntryLines(s) ==
    LET starts == EntryStarts(s)
    IN  [i \in 1..Cardinality(starts) |->
            LineAt(s, CHOOSE p \in starts :
                          Cardinality({q \in starts : q < p}) = i - 1)]

\* the line that shows match r: its marker, a space and its document
EntryLine(r) ==
    <<IF r.has_distance /\ r.distance10 >= 5 THEN "<check>" ELSE "<fire>">>
        \o <<" ">> \o (IF r.has_document THEN r.document ELSE <<>>)

\* a match the listing can show: a JSON object whose metadata is not null
WellFormed(r) == r.t = "dict" /\ r.metadata.t # "null"

\* the decimal text of a match count
CountText(k) ==
    CASE k = 1 -> <<"1">> [] k = 2 -> <<"2">> [] k = 3 -> <<"3">>
      [] k = 4 -> <<"4">> [] k = 5 -> <<"5">> [] k = 6 -> <<"6">>
      [] k = 7 -> <<"7">> [] k = 8 -> <<"8">> [] k = 9 -> <<"9">>
      [] OTHER -> IntToStr(k)

====
